---- MODULE Spec2Model ----
(***************************************************************************)
(* A model of internal/interaction/ws_conn.go: the WsConn connection       *)
(* manager.  Every caller (goroutine) is a process with a program counter  *)
(* that walks the statements of the method it called; the transport        *)
(* (LongConn), the encoder, the compressor, the listener and the command   *)
(* channel are collaborators whose results are chosen nondeterministically *)
(* where the manager cannot know them.                                     *)
(***************************************************************************)
EXTENDS Integers, Sequences, FiniteSets, TLC

(***************************************************************************)
(* Bounds of the model.                                                    *)
(***************************************************************************)
\* number of goroutines that may call the manager concurrently (SpecConc)
NumProcs == 2
\* longest request payload a caller submits
MaxMsgLen == 2
\* number of ReConn calls of one session (the constructor's call included)
MaxReConn == 2
\* the longest error description, in pieces
MaxFragments == 3

Procs == 1..NumProcs
Bytes == {0, 1}

(***************************************************************************)
(* Program constants.  The numeric values of the constant package are      *)
(* declared outside ws_conn.go; the model keeps them symbolic (pairwise    *)
(* distinct) and only tokenErrCode's zero value is the number-like "0".    *)
(***************************************************************************)
writeTimeoutSeconds == 30
\* constant.MaxTotalMsgLen, scaled down to the model's payload lengths
MaxTotalMsgLen == 2

ErrTokenExpired == "ErrTokenExpired"
ErrTokenInvalid == "ErrTokenInvalid"
ErrTokenMalformed == "ErrTokenMalformed"
ErrTokenNotValidYet == "ErrTokenNotValidYet"
ErrTokenUnknown == "ErrTokenUnknown"
ErrTokenDifferentPlatformID == "ErrTokenDifferentPlatformID"
ErrTokenDifferentUserID == "ErrTokenDifferentUserID"
ErrTokenKicked == "ErrTokenKicked"
\* the zero value of tokenErrCode (line 192: u.tokenErrCode = 0)
NoTokenErr == "0"
\* the literal code of the second OnConnectFailed (lines 257, 262)
ConnectFailedCode == "1001"

\* the seven authentication codes that are not Kicked (cases of lines 224-245)
TokenErrCodes ==
    {ErrTokenExpired, ErrTokenInvalid, ErrTokenMalformed, ErrTokenNotValidYet,
     ErrTokenUnknown, ErrTokenDifferentPlatformID, ErrTokenDifferentUserID}
AuthCodes == TokenErrCodes \cup {ErrTokenKicked}
\* status codes a server may answer that are none of the eight
OtherCodes == {"500", ConnectFailedCode}
StatusCodes == AuthCodes \cup OtherCodes

\* loginStatus values (constant package); "0" is the field's zero value
StatusZero == "0"
LoginSuccess == "LoginSuccess"
LoginFailed == "LoginFailed"
TokenFailedKickedOffline == "TokenFailedKickedOffline"
\* the status a caller stores while a login is under way; no statement of the
\* manager stores it
Connecting == "Connecting"
LoginStatuses ==
    {StatusZero, Connecting, LoginSuccess, LoginFailed, TokenFailedKickedOffline}

\* sync flags of the command channel signals (lines 264, 265)
MsgSyncBegin == "MsgSyncBegin"
MsgSyncFailed == "MsgSyncFailed"

(***************************************************************************)
(* Requests, the encoder and the compressor.  A request is its payload;    *)
(* Encode prefixes a type tag, Compress is a run-length encoding.          *)
(***************************************************************************)
SeqsUpTo(S, n) == UNION {[1..k -> S] : k \in 0..n}
Requests == SeqsUpTo(Bytes, MaxMsgLen)

\* Encoder.Encode: the encoded bytes are a type tag followed by the payload
Encode(msg) == <<1>> \o msg

RECURSIVE RunLen(_, _)
\* length of the run of s[i] that starts at index i
RunLen(s, i) ==
    IF i < Len(s) /\ s[i + 1] = s[i] THEN 1 + RunLen(s, i + 1) ELSE 1

RECURSIVE CompressFrom(_, _)
CompressFrom(s, i) ==
    IF i > Len(s) THEN <<>>
    ELSE <<RunLen(s, i), s[i]>> \o CompressFrom(s, i + RunLen(s, i))

Compress(data) == CompressFrom(data, 1)

(***************************************************************************)
(* State.                                                                  *)
(***************************************************************************)
VARIABLES
    conn,            \* the transport: "nil" (holds nothing), "open", "closed"
    stateMutex,      \* 0 when free, else the process holding it
    loginStatus,     \* WsConn.loginStatus
    tokenErrCode,    \* WsConn.tokenErrCode
    IsCompression,   \* WsConn.IsCompression, fixed at construction
    chConfigured,    \* WsConn.ConversationCh != nil, fixed at construction
    ConversationCh,  \* the signals pushed to the command channel, in order
    callers,         \* the goroutines that use this manager
    requests,        \* the requests the callers submit
    answers,         \* the results the dials of this session may have
    observe,         \* whether obs and noRespCalls are recorded
    published,       \* NewWsConn has returned the manager to its callers
    nReConn,         \* ReConn calls begun so far
    noRespCalls,     \* operation IDs of the ReConn calls that failed with no response
    pc,              \* each process's position
    fr,              \* each process's locals of the call it is in
    obs,             \* what each process's current (or last) call did and returned
    errText,         \* the description err.Error() of the error being classified
    verdict          \* the predicates applied to it so far, each with its result

vars == <<conn, stateMutex, loginStatus, tokenErrCode, IsCompression, chConfigured,
          ConversationCh, callers, requests, answers, observe, published, nReConn,
          noRespCalls, pc, fr, obs, errText, verdict>>

\* what no statement of ReConn, CloseConn, SendPingMsg, writeBinaryMsg and
\* SetLoginStatus changes
config ==
    <<IsCompression, chConfigured, callers, requests, answers, observe, errText, verdict>>

\* the record o of a call, when calls are recorded
Rec(o) == IF observe THEN o ELSE obs

\* the result tuple (shouldRetry, wasKicked, err) of a call that has not returned;
\* methods that return only an error fill the third component
NoRet == <<FALSE, FALSE, "pending">>

NoDial == [ok |-> FALSE, resp |-> "none"]

FreshFrame(id) ==
    [opID |-> id, msg |-> <<>>, data |-> <<>>, compressData |-> <<>>,
     httpResp |-> "nil", err |-> "nil"]

FreshObs(name, status) ==
    [op |-> name, opID |-> 0, msg |-> <<>>, ret |-> NoRet, events |-> <<>>, dials |-> 0, dial |-> NoDial,
     closes |-> 0, closeErr |-> "nil", deadline |-> 0, frames |-> <<>>,
     entryStatus |-> status, entryTokenErr |-> NoTokenErr, entryConn |-> "nil",
     afterClose |-> FALSE]

\* the record of a call of method name that process p begins: the state it finds,
\* and whether a CloseConn has returned with no ReConn begun since
CallObs(p, name) ==
    [FreshObs(name, loginStatus) EXCEPT
        !.entryTokenErr = tokenErrCode,
        !.entryConn = conn,
        !.afterClose = name # "ReConn" /\ (obs[p].op = "CloseConn" \/ obs[p].afterClose)]

\* the result of a dial: success, a rejection by the server with a status code,
\* or a failure with no response (resp = "nil")
DialOutcomes ==
    {[ok |-> TRUE, resp |-> "nil"]}
        \cup {[ok |-> FALSE, resp |-> c] : c \in StatusCodes \cup {"nil"}}

(***************************************************************************)
(* The collaborators, at their interface.                                  *)
(***************************************************************************)
\* LongConn.IsNil
IsNil(c) == c = "nil"

\* LongConn.Close: what the transport may hold afterwards
AfterClose == {"nil", "closed"}

\* Encoder.Encode and Compressor.Compress may fail
EncodeResults == {"nil", "encode error"}
CompressResults == {"nil", "compress error"}

\* LongConn.SetWriteTimeout: the error it may return
DeadlineResults == {"nil", "deadline error"}

\* LongConn.WriteMessage: the error it may return; a closed connection refuses
WriteResults(c) == IF c = "open" THEN {"nil", "write error"} ELSE {"write error"}

\* LongConn.Close: the error it may return
CloseResults == {"nil", "close error"}

\* common.TriggerCmdSuperGroupMsgCome: push one signal to the channel
TriggerCmdSuperGroupMsgCome(sig, ch) == Append(ch, sig)

CmdNewMsgComeToConversation(id, flag) ==
    [MsgList |-> <<>>, OperationID |-> id, SyncFlag |-> flag]

\* a listener callback, with the code it carries ("" when it carries none)
Ev(name, code) == <<name, code>>

(***************************************************************************)
(* NewWsConn (lines 59-66): the state after the struct literal and         *)
(* NewWebSocket; the constructing goroutine is about to run ReConn.        *)
(***************************************************************************)
InitWith(cs, rs, as, chs, ob) ==
    /\ conn = "nil"
    /\ stateMutex = 0
    /\ loginStatus = StatusZero
    /\ tokenErrCode = NoTokenErr
    /\ IsCompression \in BOOLEAN
    /\ chConfigured \in chs
    /\ ConversationCh = <<>>
    /\ callers = cs
    /\ requests = rs
    /\ answers = as
    /\ observe = ob
    /\ published = FALSE
    /\ nReConn = 1
    /\ noRespCalls = <<>>
    /\ pc = [p \in Procs |-> IF p = 1 THEN "rc_lock" ELSE "idle"]
    /\ fr = [p \in Procs |-> FreshFrame(IF p = 1 THEN 1 ELSE 0)]
    /\ obs = [p \in Procs |->
                IF p = 1 /\ ob THEN [FreshObs("ReConn", StatusZero) EXCEPT !.opID = 1] ELSE FreshObs("none", "")]

\* the manager's state at NewWsConn, no error under classification
InitManager(cs, rs, as, chs, ob) ==
    /\ InitWith(cs, rs, as, chs, ob)
    /\ errText = <<>>
    /\ verdict = {}

\* one caller: the calls of the session follow one another
Init == InitManager({1}, Requests, DialOutcomes, BOOLEAN, TRUE)

\* every goroutine calls the manager: the calls interleave.  What is explored is
\* the interleaving: the callers submit an empty request and a longest one, a
\* dial succeeds, gets no response or is rejected with one code of each kind of
\* case of the switch, no command channel is configured, and the record of each
\* call is not kept
ConcRequests == {<<>>, [i \in 1..MaxMsgLen |-> 1]}
ConcAnswers ==
    {o \in DialOutcomes : o.resp \in {"nil", ErrTokenExpired, ErrTokenKicked, "500"}}
InitConc == InitManager(Procs, ConcRequests, ConcAnswers, {FALSE}, FALSE)

(***************************************************************************)
(* ReConn (lines 190-276).                                                 *)
(***************************************************************************)
\* IsInterruptReconnection (lines 52-57)
IsInterruptReconnection == tokenErrCode # NoTokenErr

\* a caller enters ReConn with a fresh operation ID in its context
CallReConn(p) ==
    /\ p \in callers /\ pc[p] = "idle" /\ published /\ nReConn < MaxReConn
    /\ nReConn' = nReConn + 1
    /\ pc' = [pc EXCEPT ![p] = "rc_lock"]
    /\ fr' = [fr EXCEPT ![p] = FreshFrame(nReConn + 1)]
    /\ obs' = Rec([obs EXCEPT ![p] =
                    [CallObs(p, "ReConn") EXCEPT !.opID = nReConn + 1]])
    /\ UNCHANGED <<conn, stateMutex, loginStatus, tokenErrCode, config, ConversationCh,
                   published, noRespCalls>>

\* line 191: u.stateMutex.Lock()
rc_lock(p) ==
    /\ pc[p] = "rc_lock" /\ stateMutex = 0
    /\ stateMutex' = p
    /\ pc' = [pc EXCEPT ![p] = "rc_reset"]
    /\ UNCHANGED <<conn, loginStatus, tokenErrCode, config, ConversationCh, published,
                   nReConn, noRespCalls, fr, obs>>

\* line 192 left out: tokenErrCode keeps what an earlier call stored
rc_reset_skip(p) ==
    /\ pc[p] = "rc_reset"
    /\ pc' = [pc EXCEPT ![p] = "rc_close"]
    /\ UNCHANGED <<conn, stateMutex, loginStatus, tokenErrCode, config, ConversationCh,
                   published, nReConn, noRespCalls, fr, obs>>

\* line 192: u.tokenErrCode = 0
rc_reset(p) ==
    /\ pc[p] = "rc_reset"
    /\ tokenErrCode' = NoTokenErr
    /\ pc' = [pc EXCEPT ![p] = "rc_close"]
    /\ UNCHANGED <<conn, stateMutex, loginStatus, config, ConversationCh, published,
                   nReConn, noRespCalls, fr, obs>>

\* lines 194-200 moved below the check of line 202: a call that is going to
\* abort leaves the connection alone
rc_close_unlessKicked(p) ==
    /\ pc[p] = "rc_close"
    /\ IF ~IsNil(conn) /\ loginStatus # TokenFailedKickedOffline
         THEN \E e \in CloseResults :
                /\ conn' \in AfterClose
                /\ obs' = Rec([obs EXCEPT ![p].closes = @ + 1, ![p].closeErr = e])
         ELSE UNCHANGED <<conn, obs>>
    /\ pc' = [pc EXCEPT ![p] = "rc_check"]
    /\ UNCHANGED <<stateMutex, loginStatus, tokenErrCode, config, ConversationCh,
                   published, nReConn, noRespCalls, fr>>

\* lines 194-200: close the connection the transport holds; the error is dropped
rc_close(p) ==
    /\ pc[p] = "rc_close"
    /\ IF ~IsNil(conn)
         THEN \E e \in CloseResults :
                /\ conn' \in AfterClose
                /\ obs' = Rec([obs EXCEPT ![p].closes = @ + 1, ![p].closeErr = e])
         ELSE UNCHANGED <<conn, obs>>
    /\ pc' = [pc EXCEPT ![p] = "rc_check"]
    /\ UNCHANGED <<stateMutex, loginStatus, tokenErrCode, config, ConversationCh,
                   published, nReConn, noRespCalls, fr>>

\* the guard of line 202 left out: every call goes on to dial
rc_check_noGuard(p) ==
    /\ pc[p] = "rc_check"
    /\ obs' = Rec([obs EXCEPT ![p].events = Append(@, Ev("OnConnecting", ""))])
    /\ pc' = [pc EXCEPT ![p] = "rc_dial"]
    /\ UNCHANGED <<conn, stateMutex, loginStatus, tokenErrCode, config, ConversationCh,
                   published, nReConn, noRespCalls, fr>>

\* lines 202-205: the kicked-offline guard, else listener.OnConnecting()
rc_check(p) ==
    /\ pc[p] = "rc_check"
    /\ IF loginStatus = TokenFailedKickedOffline
         THEN /\ obs' = Rec([obs EXCEPT ![p].ret = <<FALSE, FALSE, "don't re conn">>])
              /\ pc' = [pc EXCEPT ![p] = "rc_unlock"]
         ELSE /\ obs' = Rec([obs EXCEPT ![p].events = Append(@, Ev("OnConnecting", ""))])
              /\ pc' = [pc EXCEPT ![p] = "rc_dial"]
    /\ UNCHANGED <<conn, stateMutex, loginStatus, tokenErrCode, config, ConversationCh,
                   published, nReConn, noRespCalls, fr>>

\* lines 207-216: httpResp, err := u.conn.Dial(url, header)
rc_dial(p) ==
    /\ pc[p] = "rc_dial"
    /\ \E o \in answers :
         /\ conn' = IF o.ok THEN "open" ELSE conn
         /\ fr' = [fr EXCEPT ![p].httpResp = o.resp,
                             ![p].err = IF o.ok THEN "nil" ELSE "dial error"]
         /\ obs' = Rec([obs EXCEPT ![p].dials = @ + 1, ![p].dial = o])
         /\ pc' = [pc EXCEPT ![p] = IF o.ok THEN "rc_success" ELSE "rc_failed"]
    /\ UNCHANGED <<stateMutex, loginStatus, tokenErrCode, config, ConversationCh,
                   published, nReConn, noRespCalls>>

\* line 218 left out: a failed dial leaves loginStatus as it was
rc_failed_noStatus(p) ==
    /\ pc[p] = "rc_failed"
    /\ pc' = [pc EXCEPT ![p] = IF fr[p].httpResp # "nil" THEN "rc_resp" ELSE "rc_noresp"]
    /\ UNCHANGED <<conn, stateMutex, loginStatus, tokenErrCode, config, ConversationCh,
                   published, nReConn, noRespCalls, fr, obs>>

\* line 218 moved inside the branch of line 219: only a rejection by the server
\* stores LoginFailed
rc_failed_onlyWithResponse(p) ==
    /\ pc[p] = "rc_failed"
    /\ loginStatus' = IF fr[p].httpResp # "nil" THEN LoginFailed ELSE loginStatus
    /\ pc' = [pc EXCEPT ![p] = IF fr[p].httpResp # "nil" THEN "rc_resp" ELSE "rc_noresp"]
    /\ UNCHANGED <<conn, stateMutex, tokenErrCode, config, ConversationCh, published,
                   nReConn, noRespCalls, fr, obs>>

\* lines 218-219: u.loginStatus = constant.LoginFailed; if httpResp != nil
rc_failed(p) ==
    /\ pc[p] = "rc_failed"
    /\ loginStatus' = LoginFailed
    /\ pc' = [pc EXCEPT ![p] = IF fr[p].httpResp # "nil" THEN "rc_resp" ELSE "rc_noresp"]
    /\ UNCHANGED <<conn, stateMutex, tokenErrCode, config, ConversationCh, published,
                   nReConn, noRespCalls, fr, obs>>

\* what one case of the switch of lines 223-259 does.  set: whether tokenErrCode
\* is assigned the code; notify: the listener calls the case makes
SwitchCase(set, retry, kicked, notify) ==
    [set |-> set, retry |-> retry, kicked |-> kicked, notify |-> notify]

\* the switch without its case for ErrTokenMalformed
Classify_noMalformed(code) ==
    CASE code = ErrTokenExpired ->
           SwitchCase(TRUE, FALSE, FALSE, <<Ev("OnUserTokenExpired", "")>>)
      [] code \in TokenErrCodes \ {ErrTokenExpired, ErrTokenMalformed} ->
           SwitchCase(TRUE, FALSE, FALSE, <<>>)
      [] code = ErrTokenKicked -> SwitchCase(TRUE, FALSE, TRUE, <<>>)
      [] OTHER ->
           SwitchCase(FALSE, TRUE, FALSE, <<Ev("OnConnectFailed", ConnectFailedCode)>>)

\* the switch with the Kicked case returning like the other token errors
Classify_kickedAsTokenError(code) ==
    CASE code = ErrTokenExpired ->
           SwitchCase(TRUE, FALSE, FALSE, <<Ev("OnUserTokenExpired", "")>>)
      [] code \in AuthCodes \ {ErrTokenExpired} -> SwitchCase(TRUE, FALSE, FALSE, <<>>)
      [] OTHER ->
           SwitchCase(FALSE, TRUE, FALSE, <<Ev("OnConnectFailed", ConnectFailedCode)>>)

\* the switch with a default case that tells the caller to stop
Classify_defaultStops(code) ==
    CASE code = ErrTokenExpired ->
           SwitchCase(TRUE, FALSE, FALSE, <<Ev("OnUserTokenExpired", "")>>)
      [] code \in TokenErrCodes \ {ErrTokenExpired} -> SwitchCase(TRUE, FALSE, FALSE, <<>>)
      [] code = ErrTokenKicked -> SwitchCase(TRUE, FALSE, TRUE, <<>>)
      [] OTHER ->
           SwitchCase(FALSE, FALSE, FALSE, <<Ev("OnConnectFailed", ConnectFailedCode)>>)

\* the switch whose case for ErrTokenKicked leaves out line 247
\* (u.tokenErrCode = constant.ErrTokenKicked.ErrCode)
Classify_kickedNotStored(code) ==
    CASE code = ErrTokenExpired ->
           SwitchCase(TRUE, FALSE, FALSE, <<Ev("OnUserTokenExpired", "")>>)
      [] code \in TokenErrCodes \ {ErrTokenExpired} -> SwitchCase(TRUE, FALSE, FALSE, <<>>)
      [] code = ErrTokenKicked -> SwitchCase(FALSE, FALSE, TRUE, <<>>)
      [] OTHER ->
           SwitchCase(FALSE, TRUE, FALSE, <<Ev("OnConnectFailed", ConnectFailedCode)>>)

\* lines 223-259: the switch on the status code
Classify(code) ==
    CASE code = ErrTokenExpired ->
           SwitchCase(TRUE, FALSE, FALSE, <<Ev("OnUserTokenExpired", "")>>)
      [] code \in {ErrTokenInvalid, ErrTokenMalformed, ErrTokenNotValidYet,
                   ErrTokenUnknown, ErrTokenDifferentPlatformID,
                   ErrTokenDifferentUserID} ->
           SwitchCase(TRUE, FALSE, FALSE, <<>>)
      [] code = ErrTokenKicked -> SwitchCase(TRUE, FALSE, TRUE, <<>>)
      [] OTHER ->
           SwitchCase(FALSE, TRUE, FALSE, <<Ev("OnConnectFailed", ConnectFailedCode)>>)

\* lines 220-259: the server answered: OnConnectFailed(status code), then the switch
rc_resp(p) ==
    /\ pc[p] = "rc_resp"
    /\ LET code == fr[p].httpResp
           c == Classify(code)
       IN /\ tokenErrCode' = IF c.set THEN code ELSE tokenErrCode
          /\ obs' = Rec([obs EXCEPT
                       ![p].events = Append(@, Ev("OnConnectFailed", code)) \o c.notify,
                       ![p].ret = <<c.retry, c.kicked, fr[p].err>>])
    /\ pc' = [pc EXCEPT ![p] = "rc_unlock"]
    /\ UNCHANGED <<conn, stateMutex, loginStatus, config, ConversationCh, published,
                   nReConn, noRespCalls, fr>>

\* lines 264 and 265 exchanged: MsgSyncFailed is pushed before MsgSyncBegin
rc_noresp_swapped(p) ==
    /\ pc[p] = "rc_noresp"
    /\ obs' = Rec([obs EXCEPT
                 ![p].events = Append(@, Ev("OnConnectFailed", ConnectFailedCode)),
                 ![p].ret = <<TRUE, FALSE, fr[p].err>>])
    /\ ConversationCh' =
         IF chConfigured
         THEN TriggerCmdSuperGroupMsgCome(
                  CmdNewMsgComeToConversation(fr[p].opID, MsgSyncBegin),
                  TriggerCmdSuperGroupMsgCome(
                      CmdNewMsgComeToConversation(fr[p].opID, MsgSyncFailed),
                      ConversationCh))
         ELSE ConversationCh
    /\ noRespCalls' = IF observe THEN Append(noRespCalls, fr[p].opID) ELSE noRespCalls
    /\ pc' = [pc EXCEPT ![p] = "rc_unlock"]
    /\ UNCHANGED <<conn, stateMutex, loginStatus, tokenErrCode, config, published,
                   nReConn, fr>>

\* lines 261-269: no response: OnConnectFailed(1001), then the two sync signals
rc_noresp(p) ==
    /\ pc[p] = "rc_noresp"
    /\ obs' = Rec([obs EXCEPT
                 ![p].events = Append(@, Ev("OnConnectFailed", ConnectFailedCode)),
                 ![p].ret = <<TRUE, FALSE, fr[p].err>>])
    /\ ConversationCh' =
         IF chConfigured
         THEN TriggerCmdSuperGroupMsgCome(
                  CmdNewMsgComeToConversation(fr[p].opID, MsgSyncFailed),
                  TriggerCmdSuperGroupMsgCome(
                      CmdNewMsgComeToConversation(fr[p].opID, MsgSyncBegin),
                      ConversationCh))
         ELSE ConversationCh
    /\ noRespCalls' = IF observe THEN Append(noRespCalls, fr[p].opID) ELSE noRespCalls
    /\ pc' = [pc EXCEPT ![p] = "rc_unlock"]
    /\ UNCHANGED <<conn, stateMutex, loginStatus, tokenErrCode, config, published,
                   nReConn, fr>>

\* line 273 left out: loginStatus keeps its value after a successful dial
rc_success_noStatus(p) ==
    /\ pc[p] = "rc_success"
    /\ obs' = Rec([obs EXCEPT ![p].events = Append(@, Ev("OnConnectSuccess", "")),
                          ![p].ret = <<TRUE, FALSE, "nil">>])
    /\ pc' = [pc EXCEPT ![p] = "rc_unlock"]
    /\ UNCHANGED <<conn, stateMutex, loginStatus, tokenErrCode, config, ConversationCh,
                   published, nReConn, noRespCalls, fr>>

\* lines 272-275: listener.OnConnectSuccess(); u.loginStatus = constant.LoginSuccess
rc_success(p) ==
    /\ pc[p] = "rc_success"
    /\ obs' = Rec([obs EXCEPT ![p].events = Append(@, Ev("OnConnectSuccess", "")),
                          ![p].ret = <<TRUE, FALSE, "nil">>])
    /\ loginStatus' = LoginSuccess
    /\ pc' = [pc EXCEPT ![p] = "rc_unlock"]
    /\ UNCHANGED <<conn, stateMutex, tokenErrCode, config, ConversationCh, published,
                   nReConn, noRespCalls, fr>>

\* line 193: the deferred u.stateMutex.Unlock(); the call returns.  The call of
\* NewWsConn (line 64) returns the manager to its callers (line 65)
rc_unlock(p) ==
    /\ pc[p] = "rc_unlock"
    /\ stateMutex' = 0
    /\ published' = TRUE
    /\ pc' = [pc EXCEPT ![p] = "idle"]
    /\ fr' = [fr EXCEPT ![p] = FreshFrame(0)]
    /\ UNCHANGED <<conn, loginStatus, tokenErrCode, config, ConversationCh, nReConn,
                   noRespCalls, obs>>

ReConn(p) ==
    \/ rc_lock(p) \/ rc_reset(p) \/ rc_close(p) \/ rc_check(p) \/ rc_dial(p)
    \/ rc_failed(p) \/ rc_resp(p) \/ rc_noresp(p) \/ rc_success(p) \/ rc_unlock(p)

(***************************************************************************)
(* CloseConn (lines 68-80).                                                *)
(***************************************************************************)
CallCloseConn(p) ==
    /\ p \in callers /\ pc[p] = "idle" /\ published
    /\ pc' = [pc EXCEPT ![p] = "cc_lock"]
    /\ fr' = [fr EXCEPT ![p] = FreshFrame(0)]
    /\ obs' = Rec([obs EXCEPT ![p] = CallObs(p, "CloseConn")])
    /\ UNCHANGED <<conn, stateMutex, loginStatus, tokenErrCode, config, ConversationCh,
                   published, nReConn, noRespCalls>>

\* line 69: u.Lock()
cc_lock(p) ==
    /\ pc[p] = "cc_lock" /\ stateMutex = 0
    /\ stateMutex' = p
    /\ pc' = [pc EXCEPT ![p] = "cc_close"]
    /\ UNCHANGED <<conn, loginStatus, tokenErrCode, config, ConversationCh, published,
                   nReConn, noRespCalls, fr, obs>>

\* CloseConn also putting loginStatus back to its zero value
cc_close_resetsStatus(p) ==
    /\ pc[p] = "cc_close"
    /\ IF ~IsNil(conn)
         THEN \E e \in CloseResults :
                /\ conn' \in AfterClose
                /\ loginStatus' = StatusZero
                /\ obs' = Rec([obs EXCEPT ![p].closes = @ + 1, ![p].ret = <<FALSE, FALSE, e>>])
         ELSE /\ obs' = Rec([obs EXCEPT ![p].ret = <<FALSE, FALSE, "nil">>])
              /\ UNCHANGED <<conn, loginStatus>>
    /\ pc' = [pc EXCEPT ![p] = "cc_unlock"]
    /\ UNCHANGED <<stateMutex, tokenErrCode, config, ConversationCh,
                   published, nReConn, noRespCalls, fr>>

\* lines 71-79: close the connection the transport holds and return its error
cc_close(p) ==
    /\ pc[p] = "cc_close"
    /\ IF ~IsNil(conn)
         THEN \E e \in CloseResults :
                /\ conn' \in AfterClose
                /\ obs' = Rec([obs EXCEPT ![p].closes = @ + 1, ![p].ret = <<FALSE, FALSE, e>>])
         ELSE /\ obs' = Rec([obs EXCEPT ![p].ret = <<FALSE, FALSE, "nil">>])
              /\ UNCHANGED conn
    /\ pc' = [pc EXCEPT ![p] = "cc_unlock"]
    /\ UNCHANGED <<stateMutex, loginStatus, tokenErrCode, config, ConversationCh,
                   published, nReConn, noRespCalls, fr>>

\* line 70: the deferred u.Unlock()
cc_unlock(p) ==
    /\ pc[p] = "cc_unlock"
    /\ stateMutex' = 0
    /\ pc' = [pc EXCEPT ![p] = "idle"]
    /\ fr' = [fr EXCEPT ![p] = FreshFrame(0)]
    /\ UNCHANGED <<conn, loginStatus, tokenErrCode, config, ConversationCh, published,
                   nReConn, noRespCalls, obs>>

CloseConn(p) == cc_lock(p) \/ cc_close(p) \/ cc_unlock(p)

(***************************************************************************)
(* SetLoginStatus (lines 86-88): one store, no lock.                       *)
(***************************************************************************)
SetLoginStatus(p, loginState) ==
    /\ p \in callers /\ pc[p] = "idle" /\ published
    /\ loginStatus' = loginState
    /\ obs' = Rec([obs EXCEPT ![p] =
                 [FreshObs("SetLoginStatus", "") EXCEPT
                      !.ret = <<FALSE, FALSE, "nil">>,
                      !.afterClose = obs[p].op = "CloseConn" \/ obs[p].afterClose]])
    /\ UNCHANGED <<conn, stateMutex, tokenErrCode, config, ConversationCh, published,
                   nReConn, noRespCalls, pc, fr>>

(***************************************************************************)
(* SendPingMsg (lines 98-114).                                             *)
(***************************************************************************)
CallSendPingMsg(p) ==
    /\ p \in callers /\ pc[p] = "idle" /\ published
    /\ pc' = [pc EXCEPT ![p] = "sp_lock"]
    /\ fr' = [fr EXCEPT ![p] = FreshFrame(0)]
    /\ obs' = Rec([obs EXCEPT ![p] = CallObs(p, "SendPingMsg")])
    /\ UNCHANGED <<conn, stateMutex, loginStatus, tokenErrCode, config, ConversationCh,
                   published, nReConn, noRespCalls>>

\* line 99: u.stateMutex.Lock()
sp_lock(p) ==
    /\ pc[p] = "sp_lock" /\ stateMutex = 0
    /\ stateMutex' = p
    /\ pc' = [pc EXCEPT ![p] = "sp_check"]
    /\ UNCHANGED <<conn, loginStatus, tokenErrCode, config, ConversationCh, published,
                   nReConn, noRespCalls, fr, obs>>

\* lines 101-103: if u.conn.IsNil() return "conn == nil"
sp_check(p) ==
    /\ pc[p] = "sp_check"
    /\ IF IsNil(conn)
         THEN /\ obs' = Rec([obs EXCEPT ![p].ret = <<FALSE, FALSE, "conn == nil">>])
              /\ pc' = [pc EXCEPT ![p] = "sp_unlock"]
         ELSE /\ pc' = [pc EXCEPT ![p] = "sp_deadline"]
              /\ UNCHANGED obs
    /\ UNCHANGED <<conn, stateMutex, loginStatus, tokenErrCode, config, ConversationCh,
                   published, nReConn, noRespCalls, fr>>

\* lines 105-108: u.SetWriteTimeout(writeTimeoutSeconds)
sp_deadline(p) ==
    /\ pc[p] = "sp_deadline"
    /\ \E e \in DeadlineResults :
         /\ obs' = Rec([obs EXCEPT ![p].deadline = writeTimeoutSeconds,
                               ![p].ret = IF e = "nil" THEN @
                                          ELSE <<FALSE, FALSE, "SetWriteDeadline failed">>])
         /\ pc' = [pc EXCEPT ![p] = IF e = "nil" THEN "sp_write" ELSE "sp_unlock"]
    /\ UNCHANGED <<conn, stateMutex, loginStatus, tokenErrCode, config, ConversationCh,
                   published, nReConn, noRespCalls, fr>>

\* lines 109-113: u.conn.WriteMessage(websocket.PingMessage, "try ping")
sp_write(p) ==
    /\ pc[p] = "sp_write"
    /\ \E e \in WriteResults(conn) :
         obs' = Rec([obs EXCEPT ![p].frames = Append(@, <<"PingMessage", "try ping">>),
                            ![p].ret = <<FALSE, FALSE,
                                         IF e = "nil" THEN "nil" ELSE "WriteMessage failed">>])
    /\ pc' = [pc EXCEPT ![p] = "sp_unlock"]
    /\ UNCHANGED <<conn, stateMutex, loginStatus, tokenErrCode, config, ConversationCh,
                   published, nReConn, noRespCalls, fr>>

\* line 100: the deferred u.stateMutex.Unlock()
sp_unlock(p) ==
    /\ pc[p] = "sp_unlock"
    /\ stateMutex' = 0
    /\ pc' = [pc EXCEPT ![p] = "idle"]
    /\ fr' = [fr EXCEPT ![p] = FreshFrame(0)]
    /\ UNCHANGED <<conn, loginStatus, tokenErrCode, config, ConversationCh, published,
                   nReConn, noRespCalls, obs>>

SendPingMsg(p) == sp_lock(p) \/ sp_check(p) \/ sp_deadline(p) \/ sp_write(p) \/ sp_unlock(p)

(***************************************************************************)
(* writeBinaryMsg (lines 126-156).                                         *)
(***************************************************************************)
CallWriteBinaryMsg(p, msg) ==
    /\ p \in callers /\ pc[p] = "idle" /\ published
    /\ pc' = [pc EXCEPT ![p] = "wb_encode"]
    /\ fr' = [fr EXCEPT ![p] = [FreshFrame(0) EXCEPT !.msg = msg]]
    /\ obs' = Rec([obs EXCEPT ![p] = [CallObs(p, "writeBinaryMsg") EXCEPT !.msg = msg]])
    /\ UNCHANGED <<conn, stateMutex, loginStatus, tokenErrCode, config, ConversationCh,
                   published, nReConn, noRespCalls>>

\* lines 127-130: data, err := u.encoder.Encode(msg), before the lock is taken;
\* an encoding error returns at once
wb_encode(p) ==
    /\ pc[p] = "wb_encode"
    /\ \E e \in EncodeResults :
         IF e = "nil"
         THEN /\ fr' = [fr EXCEPT ![p].data = Encode(fr[p].msg)]
              /\ pc' = [pc EXCEPT ![p] = "wb_lock"]
              /\ UNCHANGED obs
         ELSE /\ obs' = Rec([obs EXCEPT ![p].ret = <<FALSE, FALSE, "Encode error">>])
              /\ pc' = [pc EXCEPT ![p] = "idle"]
              /\ fr' = [fr EXCEPT ![p] = FreshFrame(0)]
    /\ UNCHANGED <<conn, stateMutex, loginStatus, tokenErrCode, config, ConversationCh,
                   published, nReConn, noRespCalls>>

\* line 132 left out: writeBinaryMsg goes on without waiting for the mutex
wb_lock_noWait(p) ==
    /\ pc[p] = "wb_lock"
    /\ stateMutex' = p
    /\ pc' = [pc EXCEPT ![p] = "wb_check"]
    /\ UNCHANGED <<conn, loginStatus, tokenErrCode, config, ConversationCh, published,
                   nReConn, noRespCalls, fr, obs>>

\* line 132: u.stateMutex.Lock()
wb_lock(p) ==
    /\ pc[p] = "wb_lock" /\ stateMutex = 0
    /\ stateMutex' = p
    /\ pc' = [pc EXCEPT ![p] = "wb_check"]
    /\ UNCHANGED <<conn, loginStatus, tokenErrCode, config, ConversationCh, published,
                   nReConn, noRespCalls, fr, obs>>

\* lines 134, 153-155: if !u.conn.IsNil() ... else return "conn==nil"
wb_check(p) ==
    /\ pc[p] = "wb_check"
    /\ IF IsNil(conn)
         THEN /\ obs' = Rec([obs EXCEPT ![p].ret = <<FALSE, FALSE, "conn==nil">>])
              /\ pc' = [pc EXCEPT ![p] = "wb_unlock"]
         ELSE /\ pc' = [pc EXCEPT ![p] = "wb_deadline"]
              /\ UNCHANGED obs
    /\ UNCHANGED <<conn, stateMutex, loginStatus, tokenErrCode, config, ConversationCh,
                   published, nReConn, noRespCalls, fr>>

\* the deadline set only for a request within the limit of line 140, as if the
\* size check came first
wb_deadline_unlessOversized(p) ==
    /\ pc[p] = "wb_deadline"
    /\ \E e \in DeadlineResults :
         /\ obs' = Rec([obs EXCEPT ![p].deadline = IF Len(fr[p].data) > MaxTotalMsgLen
                                                    THEN @ ELSE writeTimeoutSeconds,
                               ![p].ret = IF e = "nil" THEN @
                                          ELSE <<FALSE, FALSE, "SetWriteTimeout">>])
         /\ pc' = [pc EXCEPT ![p] = IF e = "nil" THEN "wb_size" ELSE "wb_unlock"]
    /\ UNCHANGED <<conn, stateMutex, loginStatus, tokenErrCode, config, ConversationCh,
                   published, nReConn, noRespCalls, fr>>

\* lines 135-138: u.SetWriteTimeout(writeTimeoutSeconds)
wb_deadline(p) ==
    /\ pc[p] = "wb_deadline"
    /\ \E e \in DeadlineResults :
         /\ obs' = Rec([obs EXCEPT ![p].deadline = writeTimeoutSeconds,
                               ![p].ret = IF e = "nil" THEN @
                                          ELSE <<FALSE, FALSE, "SetWriteTimeout">>])
         /\ pc' = [pc EXCEPT ![p] = IF e = "nil" THEN "wb_size" ELSE "wb_unlock"]
    /\ UNCHANGED <<conn, stateMutex, loginStatus, tokenErrCode, config, ConversationCh,
                   published, nReConn, noRespCalls, fr>>

\* the limit of line 140 applied to the bytes that will be written (the
\* compressed ones when compression is enabled)
wb_size_afterCompression(p) ==
    /\ pc[p] = "wb_size"
    /\ IF Len(IF IsCompression THEN Compress(fr[p].data) ELSE fr[p].data) > MaxTotalMsgLen
         THEN /\ obs' = Rec([obs EXCEPT ![p].ret = <<FALSE, FALSE, "msg too long">>])
              /\ pc' = [pc EXCEPT ![p] = "wb_unlock"]
         ELSE /\ pc' = [pc EXCEPT ![p] = "wb_compress"]
              /\ UNCHANGED obs
    /\ UNCHANGED <<conn, stateMutex, loginStatus, tokenErrCode, config, ConversationCh,
                   published, nReConn, noRespCalls, fr>>

\* lines 140-142: if len(data) > constant.MaxTotalMsgLen return "msg too long"
wb_size(p) ==
    /\ pc[p] = "wb_size"
    /\ IF Len(fr[p].data) > MaxTotalMsgLen
         THEN /\ obs' = Rec([obs EXCEPT ![p].ret = <<FALSE, FALSE, "msg too long">>])
              /\ pc' = [pc EXCEPT ![p] = "wb_unlock"]
         ELSE /\ pc' = [pc EXCEPT ![p] = "wb_compress"]
              /\ UNCHANGED obs
    /\ UNCHANGED <<conn, stateMutex, loginStatus, tokenErrCode, config, ConversationCh,
                   published, nReConn, noRespCalls, fr>>

\* lines 144-148 left out: the data is written as it is, compression enabled or not
wb_compress_skip(p) ==
    /\ pc[p] = "wb_compress"
    /\ fr' = [fr EXCEPT ![p].compressData = fr[p].data]
    /\ pc' = [pc EXCEPT ![p] = "wb_write"]
    /\ UNCHANGED <<conn, stateMutex, loginStatus, tokenErrCode, config, ConversationCh,
                   published, nReConn, noRespCalls, obs>>

\* lines 143-151: compressData is the compressed data, or the data itself
wb_compress(p) ==
    /\ pc[p] = "wb_compress"
    /\ IF IsCompression
         THEN \E e \in CompressResults :
                IF e = "nil"
                THEN /\ fr' = [fr EXCEPT ![p].compressData = Compress(fr[p].data)]
                     /\ pc' = [pc EXCEPT ![p] = "wb_write"]
                     /\ UNCHANGED obs
                ELSE /\ obs' = Rec([obs EXCEPT ![p].ret = <<FALSE, FALSE, e>>])
                     /\ pc' = [pc EXCEPT ![p] = "wb_unlock"]
                     /\ UNCHANGED fr
         ELSE /\ fr' = [fr EXCEPT ![p].compressData = fr[p].data]
              /\ pc' = [pc EXCEPT ![p] = "wb_write"]
              /\ UNCHANGED obs
    /\ UNCHANGED <<conn, stateMutex, loginStatus, tokenErrCode, config, ConversationCh,
                   published, nReConn, noRespCalls>>

\* line 152: u.conn.WriteMessage(websocket.BinaryMessage, compressData)
wb_write(p) ==
    /\ pc[p] = "wb_write"
    /\ \E e \in WriteResults(conn) :
         obs' = Rec([obs EXCEPT
                   ![p].frames = Append(@, <<"BinaryMessage", fr[p].compressData>>),
                   ![p].ret = <<FALSE, FALSE, e>>])
    /\ pc' = [pc EXCEPT ![p] = "wb_unlock"]
    /\ UNCHANGED <<conn, stateMutex, loginStatus, tokenErrCode, config, ConversationCh,
                   published, nReConn, noRespCalls, fr>>

\* line 133: the deferred u.stateMutex.Unlock()
wb_unlock(p) ==
    /\ pc[p] = "wb_unlock"
    /\ stateMutex' = 0
    /\ pc' = [pc EXCEPT ![p] = "idle"]
    /\ fr' = [fr EXCEPT ![p] = FreshFrame(0)]
    /\ UNCHANGED <<conn, loginStatus, tokenErrCode, config, ConversationCh, published,
                   nReConn, noRespCalls, obs>>

writeBinaryMsg(p) ==
    \/ wb_encode(p) \/ wb_lock(p) \/ wb_check(p) \/ wb_deadline(p) \/ wb_size(p)
    \/ wb_compress(p) \/ wb_write(p) \/ wb_unlock(p)

(***************************************************************************)
(* IsReadTimeout, IsWriteTimeout, IsFatalError (lines 169-188).  An error  *)
(* is its description, a sequence of characters.                           *)
(***************************************************************************)
\* the literal "timeout" of lines 170, 177 and 184
TimeoutMarker == <<"t", "i", "m", "e", "o", "u", "t">>

\* the pieces the descriptions are put together from
Fragments ==
    {TimeoutMarker, <<"t", "i", "m", "e">>, <<"o", "u", "t">>, <<" ">>,
     <<"T", "i", "m", "e", "o", "u", "t">>, <<"E", "O", "F">>}

RECURSIVE TextsOf(_)
\* the descriptions made of at most n pieces
TextsOf(n) ==
    IF n = 0 THEN {<<>>}
    ELSE LET T == TextsOf(n - 1) IN T \cup {t \o f : t \in T, f \in Fragments}

ErrTexts == TextsOf(MaxFragments)

RECURSIVE IndexFrom(_, _, _)
\* strings.Index: the first position at or after i (counted from 0) where substr
\* occurs in s, or -1
IndexFrom(s, substr, i) ==
    IF i + Len(substr) > Len(s) THEN -1
    ELSE IF SubSeq(s, i + 1, i + Len(substr)) = substr THEN i
    ELSE IndexFrom(s, substr, i + 1)

\* strings.Contains(s, substr)
Contains(s, substr) == IndexFrom(s, substr, 0) >= 0

\* lines 169-174
IsReadTimeout(err) == IF Contains(err, TimeoutMarker) THEN TRUE ELSE FALSE

\* lines 176-181
IsWriteTimeout(err) == IF Contains(err, TimeoutMarker) THEN TRUE ELSE FALSE

\* IsFatalError answering true for a timeout, as the two predicates above do
IsFatalError_sameAsTimeout(err) == IF Contains(err, TimeoutMarker) THEN TRUE ELSE FALSE

\* lines 183-188
IsFatalError(err) == IF Contains(err, TimeoutMarker) THEN FALSE ELSE TRUE

\* a caller applies one of the three predicates to the error it holds
ApplyIsReadTimeout ==
    /\ <<"IsReadTimeout", TRUE>> \notin verdict /\ <<"IsReadTimeout", FALSE>> \notin verdict
    /\ verdict' = verdict \cup {<<"IsReadTimeout", IsReadTimeout(errText)>>}
    /\ UNCHANGED <<conn, stateMutex, loginStatus, tokenErrCode, IsCompression,
                   chConfigured, ConversationCh, callers, requests, answers, observe,
                   published, nReConn, noRespCalls, pc, fr, obs, errText>>

ApplyIsWriteTimeout ==
    /\ <<"IsWriteTimeout", TRUE>> \notin verdict /\ <<"IsWriteTimeout", FALSE>> \notin verdict
    /\ verdict' = verdict \cup {<<"IsWriteTimeout", IsWriteTimeout(errText)>>}
    /\ UNCHANGED <<conn, stateMutex, loginStatus, tokenErrCode, IsCompression,
                   chConfigured, ConversationCh, callers, requests, answers, observe,
                   published, nReConn, noRespCalls, pc, fr, obs, errText>>

ApplyIsFatalError ==
    /\ <<"IsFatalError", TRUE>> \notin verdict /\ <<"IsFatalError", FALSE>> \notin verdict
    /\ verdict' = verdict \cup {<<"IsFatalError", IsFatalError(errText)>>}
    /\ UNCHANGED <<conn, stateMutex, loginStatus, tokenErrCode, IsCompression,
                   chConfigured, ConversationCh, callers, requests, answers, observe,
                   published, nReConn, noRespCalls, pc, fr, obs, errText>>

\* the error predicates applied to every description, in every order
InitErr ==
    /\ InitWith({1}, {<<>>}, {}, {FALSE}, FALSE)
    /\ errText \in ErrTexts
    /\ verdict = {}

NextErr == ApplyIsReadTimeout \/ ApplyIsWriteTimeout \/ ApplyIsFatalError

SpecErr == InitErr /\ [][NextErr]_vars

(***************************************************************************)
(* The specifications.                                                     *)
(***************************************************************************)
Call(p) ==
    \/ CallReConn(p)
    \/ CallCloseConn(p)
    \/ CallSendPingMsg(p)
    \/ \E msg \in requests : CallWriteBinaryMsg(p, msg)
    \/ \E loginState \in LoginStatuses : SetLoginStatus(p, loginState)

Next ==
    \E p \in Procs :
        Call(p) \/ ReConn(p) \/ CloseConn(p) \/ SendPingMsg(p) \/ writeBinaryMsg(p)

\* one caller at a time
Spec == Init /\ [][Next]_vars

\* concurrent callers
SpecConc == InitConc /\ [][Next]_vars

TypeOK ==
    /\ conn \in {"nil", "open", "closed"}
    /\ stateMutex \in {0} \cup Procs
    /\ loginStatus \in LoginStatuses
    /\ tokenErrCode \in {NoTokenErr} \cup AuthCodes
    /\ nReConn \in 1..MaxReConn
    /\ Len(ConversationCh) <= 2 * MaxReConn

(***************************************************************************)
(* Properties.                                                             *)
(***************************************************************************)
\* process p's last call was to method name and has returned
Returned(p, name) == pc[p] = "idle" /\ obs[p].op = name /\ obs[p].ret # NoRet

NonNil(e) == e \notin {"nil", "pending"}

\* how many times the listener callback name was called
Count(events, name) == Cardinality({i \in DOMAIN events : events[i][1] = name})

Rejected(code) == [ok |-> FALSE, resp |-> code]
NoResponse == [ok |-> FALSE, resp |-> "nil"]
Connected == [ok |-> TRUE, resp |-> "nil"]

\* C1: a ReConn entered with loginStatus = TokenFailedKickedOffline calls no
\* listener callback and never dials, and returns (false, false, non-nil error)
C1_KickedOfflineAborts ==
    \A p \in Procs :
        (obs[p].op = "ReConn" /\ obs[p].entryStatus = TokenFailedKickedOffline) =>
            /\ obs[p].events = <<>>
            /\ obs[p].dials = 0
            /\ pc[p] \notin {"rc_dial", "rc_failed", "rc_resp", "rc_noresp", "rc_success"}
            /\ Returned(p, "ReConn") =>
                  /\ obs[p].ret[1] = FALSE /\ obs[p].ret[2] = FALSE
                  /\ NonNil(obs[p].ret[3])

C1_Witness ==
    \E p \in Procs :
        /\ Returned(p, "ReConn")
        /\ obs[p].entryStatus = TokenFailedKickedOffline
        /\ obs[p].ret = <<FALSE, FALSE, "don't re conn">>

\* C2: a ReConn whose dial the server rejects with one of the seven non-Kicked
\* authentication codes returns (false, false, non-nil error), leaves
\* tokenErrCode equal to that code, and calls OnUserTokenExpired once for
\* Expired and never for the other six
C2_TokenErrorRejection ==
    \A p \in Procs : \A c \in TokenErrCodes :
        (Returned(p, "ReConn") /\ obs[p].dial = Rejected(c)) =>
            /\ obs[p].ret[1] = FALSE /\ obs[p].ret[2] = FALSE
            /\ NonNil(obs[p].ret[3])
            /\ tokenErrCode = c
            /\ Count(obs[p].events, "OnUserTokenExpired")
                  = IF c = ErrTokenExpired THEN 1 ELSE 0

C2_Witness ==
    \E p \in Procs :
        /\ Returned(p, "ReConn")
        /\ obs[p].dial = Rejected(ErrTokenExpired)
        /\ tokenErrCode = ErrTokenExpired
        /\ Count(obs[p].events, "OnUserTokenExpired") = 1

\* C3: ReConn returns wasKicked = true exactly when the server rejected the dial
\* with the Kicked code; it then returns (false, true, non-nil error) with
\* tokenErrCode = Kicked, so wasKicked implies not shouldRetry on every return
C3_KickedExactly ==
    \A p \in Procs :
        Returned(p, "ReConn") =>
            /\ obs[p].ret[2] <=> (obs[p].dial = Rejected(ErrTokenKicked))
            /\ obs[p].ret[2] =>
                  /\ obs[p].ret[1] = FALSE
                  /\ NonNil(obs[p].ret[3])
                  /\ tokenErrCode = ErrTokenKicked

C3_Witness ==
    \E p \in Procs :
        /\ Returned(p, "ReConn")
        /\ obs[p].dial = Rejected(ErrTokenKicked)
        /\ obs[p].ret[2]

\* C4: a ReConn whose dial the server rejects with a code that is none of the
\* eight authentication codes returns (true, false, non-nil error), leaves
\* tokenErrCode = 0, and the listener gets OnConnectFailed(code) and then
\* OnConnectFailed(1001)
C4_UnrecognizedCode ==
    \A p \in Procs : \A c \in OtherCodes :
        (Returned(p, "ReConn") /\ obs[p].dial = Rejected(c)) =>
            /\ obs[p].ret[1] = TRUE /\ obs[p].ret[2] = FALSE
            /\ NonNil(obs[p].ret[3])
            /\ tokenErrCode = NoTokenErr
            /\ obs[p].events = <<Ev("OnConnecting", ""), Ev("OnConnectFailed", c),
                                 Ev("OnConnectFailed", ConnectFailedCode)>>

C4_Witness ==
    \E p \in Procs :
        /\ Returned(p, "ReConn")
        /\ obs[p].dial = Rejected("500")
        /\ obs[p].entryTokenErr # NoTokenErr
        /\ obs[p].ret[1]

\* the signals one pair per operation ID of ids, in order
RECURSIVE SyncPairs(_)
SyncPairs(ids) ==
    IF ids = <<>> THEN <<>>
    ELSE <<CmdNewMsgComeToConversation(Head(ids), MsgSyncBegin),
           CmdNewMsgComeToConversation(Head(ids), MsgSyncFailed)>> \o SyncPairs(Tail(ids))

\* C5: the signals pushed to the command channel are one pair (MsgSyncBegin then
\* MsgSyncFailed, no messages, the call's operation ID) per ReConn that failed
\* with no response, in the order of those calls, and nothing else; with no
\* channel configured nothing is pushed and the call still returns
\* (true, false, non-nil error)
C5_SyncSignalPairs ==
    /\ ConversationCh = IF chConfigured THEN SyncPairs(noRespCalls) ELSE <<>>
    /\ \A i, j \in DOMAIN noRespCalls : i < j => noRespCalls[i] < noRespCalls[j]
    /\ \A p \in Procs :
          Returned(p, "ReConn") =>
             /\ (obs[p].dial = NoResponse)
                   <=> (noRespCalls # <<>> /\ noRespCalls[Len(noRespCalls)] = obs[p].opID)
             /\ (obs[p].dial = NoResponse) =>
                   /\ obs[p].ret[1] = TRUE /\ obs[p].ret[2] = FALSE
                   /\ NonNil(obs[p].ret[3])

C5_Witness ==
    \E p \in Procs :
        /\ Returned(p, "ReConn")
        /\ obs[p].dial = NoResponse
        /\ chConfigured
        /\ Len(noRespCalls) < obs[p].opID
        /\ ConversationCh = SyncPairs(noRespCalls)
        /\ Len(ConversationCh) = 2

\* C6: a ReConn whose dial succeeds returns (true, false, nil), calls
\* OnConnectSuccess once and OnConnectFailed never, and leaves loginStatus =
\* LoginSuccess
C6_SuccessfulDial ==
    \A p \in Procs :
        (Returned(p, "ReConn") /\ obs[p].dial = Connected) =>
            /\ obs[p].ret = <<TRUE, FALSE, "nil">>
            /\ obs[p].events = <<Ev("OnConnecting", ""), Ev("OnConnectSuccess", "")>>
            /\ Count(obs[p].events, "OnConnectSuccess") = 1
            /\ Count(obs[p].events, "OnConnectFailed") = 0
            /\ loginStatus = LoginSuccess
            /\ obs[p].entryStatus # TokenFailedKickedOffline

C6_Witness ==
    \E p \in Procs :
        /\ Returned(p, "ReConn")
        /\ obs[p].dial = Connected
        /\ obs[p].entryStatus = LoginFailed
        /\ loginStatus = LoginSuccess

\* C7: tokenErrCode is 0 from line 192 until the switch runs, so a ReConn whose
\* dial succeeds returns with tokenErrCode = 0 (IsInterruptReconnection false)
\* whatever an earlier ReConn stored
C7_TokenErrReset ==
    \A p \in Procs :
        /\ pc[p] \in {"rc_close", "rc_check", "rc_dial", "rc_failed", "rc_resp",
                       "rc_noresp", "rc_success"} => tokenErrCode = NoTokenErr
        /\ (Returned(p, "ReConn") /\ obs[p].dial = Connected) => ~IsInterruptReconnection

C7_Witness ==
    \E p \in Procs :
        /\ Returned(p, "ReConn")
        /\ obs[p].dial = Connected
        /\ obs[p].entryTokenErr # NoTokenErr
        /\ ~IsInterruptReconnection

Oversized(msg) == Len(Encode(msg)) > MaxTotalMsgLen

\* C8 as stated: writeBinaryMsg on a request whose encoded length exceeds
\* MaxTotalMsgLen returns the "msg too long" error and writes no frame
C8_Original ==
    \A p \in Procs :
        (Returned(p, "writeBinaryMsg") /\ obs[p].ret[3] # "Encode error"
            /\ Oversized(obs[p].msg)) =>
                /\ obs[p].ret[3] = "msg too long"
                /\ obs[p].frames = <<>>

\* C8, amended: writeBinaryMsg on a request whose encoded length exceeds
\* MaxTotalMsgLen writes no frame, compression enabled or not; it returns the
\* "msg too long" error when the transport holds a connection and the write
\* deadline was set without error
C8_OversizedRejected ==
    \A p \in Procs :
        (obs[p].op = "writeBinaryMsg" /\ Oversized(obs[p].msg)) =>
            /\ obs[p].frames = <<>>
            /\ pc[p] \notin {"wb_compress", "wb_write"}
            /\ (Returned(p, "writeBinaryMsg") /\ obs[p].deadline = writeTimeoutSeconds
                    /\ obs[p].ret[3] # "SetWriteTimeout") =>
                  obs[p].ret[3] = "msg too long"

C8_Witness ==
    \E p \in Procs :
        /\ Returned(p, "writeBinaryMsg")
        /\ Oversized(obs[p].msg)
        /\ IsCompression
        /\ Len(Compress(Encode(obs[p].msg))) <= MaxTotalMsgLen
        /\ obs[p].ret[3] = "msg too long"
        /\ obs[p].frames = <<>>

\* the frame writeBinaryMsg is to write for msg
ExpectedFrame(msg) ==
    <<"BinaryMessage", IF IsCompression THEN Compress(Encode(msg)) ELSE Encode(msg)>>

\* C9: a writeBinaryMsg that gets as far as the write writes one binary frame,
\* compress(encode(msg)) with compression enabled and encode(msg) without; a
\* request within the limit on a connection whose deadline was set is written
\* unless compression fails, and then no frame is written
C9_FrameContents ==
    \A p \in Procs :
        obs[p].op = "writeBinaryMsg" =>
            /\ obs[p].frames \in {<<>>, <<ExpectedFrame(obs[p].msg)>>}
            /\ Returned(p, "writeBinaryMsg") =>
                  /\ obs[p].ret[3] = "compress error" => obs[p].frames = <<>>
                  /\ (/\ obs[p].deadline = writeTimeoutSeconds
                       /\ obs[p].ret[3] \notin {"SetWriteTimeout", "compress error"}
                       /\ ~Oversized(obs[p].msg)) =>
                        obs[p].frames = <<ExpectedFrame(obs[p].msg)>>

C9_Witness ==
    \E p \in Procs :
        /\ Returned(p, "writeBinaryMsg")
        /\ IsCompression
        /\ obs[p].msg # <<>>
        /\ obs[p].ret[3] = "nil"
        /\ obs[p].frames = <<<<"BinaryMessage", Compress(Encode(obs[p].msg))>>>>
        /\ Compress(Encode(obs[p].msg)) # Encode(obs[p].msg)

\* the positions between taking the mutex and releasing it
CriticalSection ==
    {"rc_reset", "rc_close", "rc_check", "rc_dial", "rc_failed", "rc_resp", "rc_noresp",
     "rc_success", "rc_unlock", "cc_close", "cc_unlock", "sp_check", "sp_deadline",
     "sp_write", "sp_unlock", "wb_check", "wb_deadline", "wb_size", "wb_compress",
     "wb_write", "wb_unlock"}

\* the positions whose statement calls the transport
TouchesTransport ==
    {"rc_close", "rc_dial", "cc_close", "sp_check", "sp_deadline", "sp_write",
     "wb_check", "wb_deadline", "wb_write"}

\* C10: ReConn, writeBinaryMsg, SendPingMsg and CloseConn exclude one another: at
\* most one caller is between taking and releasing the mutex, and a caller
\* holds the mutex at every statement that calls the transport and from there
\* until it returns
C10_MutualExclusion ==
    /\ \A p, q \in Procs :
          (p # q /\ pc[p] \in CriticalSection) => pc[q] \notin CriticalSection
    /\ \A p \in Procs : pc[p] \in CriticalSection => stateMutex = p
    /\ TouchesTransport \subseteq CriticalSection

C10_Witness ==
    \E p, q \in Procs :
        /\ pc[p] = "rc_dial" /\ stateMutex = p
        /\ pc[q] = "wb_lock"

\* the positions of ReConn between taking the mutex and releasing it
ReConnSection ==
    {"rc_reset", "rc_close", "rc_check", "rc_dial", "rc_failed", "rc_resp", "rc_noresp",
     "rc_success", "rc_unlock"}

\* process p takes a step of a method body (SetLoginStatus, one store made from
\* outside every method body, is the only step that moves nobody)
Moves(p) == pc'[p] # pc[p]

\* C11: every change of the transport, of loginStatus or of tokenErrCode is a
\* step of the caller that holds stateMutex, and while a caller holds the mutex
\* inside ReConn nobody else writes loginStatus
C11_MutationsUnderLock ==
    [][/\ <<conn, loginStatus, tokenErrCode>>' # <<conn, loginStatus, tokenErrCode>>
          => (stateMutex # 0 /\ Moves(stateMutex))
       /\ (loginStatus' # loginStatus
             /\ \E q \in Procs : stateMutex = q /\ pc[q] \in ReConnSection)
          => Moves(stateMutex)]_vars

\* a caller is inside ReConn, past the check of line 202, holding the mutex, and
\* loginStatus has been stored from outside since the call read it
C11_Witness ==
    \E p \in Procs :
        /\ pc[p] = "rc_dial" /\ stateMutex = p
        /\ loginStatus = TokenFailedKickedOffline

\* C12: once loginStatus is TokenFailedKickedOffline no step of ReConn, of a
\* call in flight or of a later one, changes it (only a SetLoginStatus does),
\* and no ReConn that reads it at line 202 goes on to dial
C12_KickedOfflineIsTerminal ==
    [][/\ (loginStatus = TokenFailedKickedOffline
             /\ loginStatus' # TokenFailedKickedOffline)
          => \A p \in Procs : ~Moves(p)
       /\ \A p \in Procs :
            (pc[p] = "rc_check" /\ loginStatus = TokenFailedKickedOffline)
               => pc'[p] # "rc_dial"]_vars

\* a ReConn in flight is about to store the outcome of its dial over a
\* TokenFailedKickedOffline stored after the call passed line 202
C12_Witness ==
    \E p \in Procs :
        /\ pc[p] \in {"rc_failed", "rc_success"}
        /\ loginStatus = TokenFailedKickedOffline

\* C13: NewWsConn runs ReConn once before the manager is handed out: until it
\* returns nobody else calls, and when it returns that one ReConn has called
\* OnConnecting once and dialed once, and loginStatus is LoginSuccess if the
\* dial succeeded and LoginFailed if it failed
C13_ConstructorReconnectsOnce ==
    /\ ~published =>
          /\ nReConn = 1 /\ pc[1] # "idle"
          /\ obs[1].op = "ReConn" /\ obs[1].opID = 1
          /\ \A p \in Procs \ {1} : pc[p] = "idle"
    /\ \A p \in Procs :
          (Returned(p, "ReConn") /\ obs[p].opID = 1) =>
              /\ published /\ nReConn = 1
              /\ Count(obs[p].events, "OnConnecting") = 1
              /\ obs[p].dials = 1
              /\ obs[p].dial = Connected => loginStatus = LoginSuccess
              /\ obs[p].dial # Connected => loginStatus = LoginFailed

C13_Witness ==
    /\ published /\ Returned(1, "ReConn") /\ obs[1].opID = 1
    /\ obs[1].dial = NoResponse
    /\ loginStatus = LoginFailed

\* the description s is some text, then the marker, then some text
HasTimeoutMarker(s) ==
    \E i \in 0..Len(s) : \E j \in i..Len(s) :
        s = SubSeq(s, 1, i) \o TimeoutMarker \o SubSeq(s, j + 1, Len(s))

\* C14: for every error description IsReadTimeout and IsWriteTimeout answer
\* alike, true exactly when the description contains "timeout", and
\* IsFatalError answers the opposite: an error is a timeout or fatal, never both
C14_ErrorPredicatesConsistent ==
    /\ \A v \in verdict :
          /\ v[1] \in {"IsReadTimeout", "IsWriteTimeout"} =>
                (v[2] <=> HasTimeoutMarker(errText))
          /\ v[1] = "IsFatalError" => (v[2] <=> ~HasTimeoutMarker(errText))
    /\ \A v, w \in verdict :
          /\ (v[1] = "IsReadTimeout" /\ w[1] = "IsWriteTimeout") => (v[2] <=> w[2])
          /\ (v[1] = "IsReadTimeout" /\ w[1] = "IsFatalError") => (w[2] <=> ~v[2])

C14_Witness ==
    /\ errText = <<" ">> \o TimeoutMarker \o <<"E", "O", "F">>
    /\ verdict = {<<"IsReadTimeout", TRUE>>, <<"IsWriteTimeout", TRUE>>,
                  <<"IsFatalError", FALSE>>}

\* C15: a ReConn that finds the transport holding a connection closes it before
\* it dials, whatever loginStatus is: the close comes before the check of line
\* 202, so the call that aborts on TokenFailedKickedOffline has closed the
\* connection and leaves none open; an error of that close is dropped, the call
\* goes on and returns what the check and the dial decide
C15_CloseBeforeDial ==
    \A p \in Procs :
        obs[p].op = "ReConn" =>
            /\ pc[p] \in {"rc_lock", "rc_reset", "rc_close", "rc_check", "rc_dial"} =>
                  obs[p].dials = 0
            /\ (~IsNil(obs[p].entryConn) /\ pc[p] \notin {"rc_lock", "rc_reset", "rc_close"})
                  => obs[p].closes = 1
            /\ (Returned(p, "ReConn") /\ ~IsNil(obs[p].entryConn)
                  /\ obs[p].entryStatus = TokenFailedKickedOffline)
                  => (obs[p].closes = 1 /\ obs[p].dials = 0 /\ conn # "open")
            /\ (Returned(p, "ReConn") /\ obs[p].closeErr # "nil") =>
                  /\ obs[p].ret[3] \in {"nil", "dial error", "don't re conn"}
                  /\ obs[p].ret[3] = "don't re conn"
                        <=> obs[p].entryStatus = TokenFailedKickedOffline
                  /\ obs[p].ret[3] = "nil" <=> obs[p].dial = Connected
                  /\ obs[p].ret[3] = "dial error" <=>
                        (obs[p].dials = 1 /\ obs[p].dial # Connected)

\* a ReConn entered with TokenFailedKickedOffline and an open connection has
\* returned: the connection was closed, the close failed, nothing was dialed
C15_Witness ==
    \E p \in Procs :
        /\ Returned(p, "ReConn")
        /\ obs[p].entryConn = "open"
        /\ obs[p].entryStatus = TokenFailedKickedOffline
        /\ obs[p].closes = 1 /\ obs[p].closeErr = "close error"
        /\ obs[p].dials = 0

OtherMethods ==
    {"cc_lock", "cc_close", "cc_unlock", "sp_lock", "sp_check", "sp_deadline",
     "sp_write", "sp_unlock", "wb_encode", "wb_lock", "wb_check", "wb_deadline",
     "wb_size", "wb_compress", "wb_write", "wb_unlock"}

\* C17: no step of CloseConn, SendPingMsg or writeBinaryMsg, on any path,
\* changes loginStatus or tokenErrCode: while such a call runs and after it
\* has returned both are what the call found; loginStatus is changed only by
\* the stores of ReConn (lines 218 and 273) and by SetLoginStatus
C17_StatusFrame ==
    /\ [](\A p \in Procs :
            obs[p].op \in {"CloseConn", "SendPingMsg", "writeBinaryMsg"} =>
                /\ loginStatus = obs[p].entryStatus
                /\ tokenErrCode = obs[p].entryTokenErr)
    /\ [][/\ \A p \in Procs :
               (Moves(p) /\ (pc[p] \in OtherMethods \/ pc'[p] \in OtherMethods)) =>
                   UNCHANGED <<loginStatus, tokenErrCode>>
          /\ loginStatus' # loginStatus =>
               \/ \A p \in Procs : ~Moves(p)
               \/ \E p \in Procs : Moves(p) /\ pc[p] \in {"rc_failed", "rc_success"}]_vars

\* a CloseConn that followed a successful ReConn has closed the connection and
\* returned: loginStatus is still LoginSuccess
C17_Witness ==
    \E p \in Procs :
        /\ Returned(p, "CloseConn")
        /\ obs[p].entryConn = "open" /\ obs[p].closes = 1
        /\ conn # "open"
        /\ loginStatus = LoginSuccess

\* C18: when the transport reports no connection, SendPingMsg and a
\* writeBinaryMsg whose request was encoded return the error of the missing
\* connection, having set no write deadline and called no WriteMessage; when
\* it reports one, both set the deadline of writeTimeoutSeconds before they
\* write, and writeBinaryMsg sets it before the size check, so an oversized
\* request has the deadline set and nothing written
C18_DeadlineBeforeWrite ==
    \A p \in Procs :
        obs[p].op \in {"SendPingMsg", "writeBinaryMsg"} =>
            /\ obs[p].deadline \in {0, writeTimeoutSeconds}
            /\ obs[p].frames # <<>> => obs[p].deadline = writeTimeoutSeconds
            /\ IsNil(obs[p].entryConn) =>
                  /\ obs[p].deadline = 0 /\ obs[p].frames = <<>>
                  /\ Returned(p, "SendPingMsg") => obs[p].ret[3] = "conn == nil"
                  /\ (Returned(p, "writeBinaryMsg") /\ obs[p].ret[3] # "Encode error")
                        => obs[p].ret[3] = "conn==nil"
            /\ ~IsNil(obs[p].entryConn) =>
                  /\ pc[p] \in {"sp_write", "wb_size", "wb_compress", "wb_write"} =>
                        (obs[p].deadline = writeTimeoutSeconds /\ obs[p].frames = <<>>)
                  /\ Returned(p, "SendPingMsg") => obs[p].deadline = writeTimeoutSeconds
                  /\ (Returned(p, "writeBinaryMsg") /\ obs[p].ret[3] # "Encode error")
                        => obs[p].deadline = writeTimeoutSeconds
                  /\ (Returned(p, "writeBinaryMsg") /\ obs[p].ret[3] # "Encode error"
                        /\ Oversized(obs[p].msg)) => obs[p].frames = <<>>

\* an oversized request on an open connection: the deadline was set, the size
\* check refused it, nothing was written
C18_Witness ==
    \E p \in Procs :
        /\ Returned(p, "writeBinaryMsg")
        /\ obs[p].entryConn = "open" /\ Oversized(obs[p].msg)
        /\ obs[p].deadline = writeTimeoutSeconds
        /\ obs[p].frames = <<>>
        /\ obs[p].ret[3] = "msg too long"

\* C19: when a ReConn has returned, IsInterruptReconnection() is true exactly
\* when the dial was rejected with one of the eight authentication status
\* codes (tokenErrCode is then that code); it is false after every return with
\* shouldRetry = true and after the abort on TokenFailedKickedOffline, the only
\* return with shouldRetry = false that leaves it false
C19_InterruptIffAuthBranch ==
    \A p \in Procs :
        Returned(p, "ReConn") =>
            LET auth == /\ obs[p].dials = 1 /\ ~obs[p].dial.ok
                        /\ obs[p].dial.resp \in AuthCodes
            IN /\ IsInterruptReconnection <=> auth
               /\ auth => tokenErrCode = obs[p].dial.resp
               /\ obs[p].ret[1] => ~IsInterruptReconnection
               /\ obs[p].dials = 0 => (~IsInterruptReconnection /\ ~obs[p].ret[1])
               /\ (~obs[p].ret[1] /\ ~IsInterruptReconnection) =>
                     /\ obs[p].entryStatus = TokenFailedKickedOffline
                     /\ obs[p].dials = 0

\* a ReConn entered with TokenFailedKickedOffline and a token error stored by
\* the call before it has aborted: the token error is gone
C19_Witness ==
    \E p \in Procs :
        /\ Returned(p, "ReConn")
        /\ obs[p].entryStatus = TokenFailedKickedOffline
        /\ obs[p].entryTokenErr # NoTokenErr
        /\ ~obs[p].ret[1] /\ obs[p].dials = 0
        /\ ~IsInterruptReconnection

\* C20: when a ReConn that dialed has returned, loginStatus is LoginSuccess
\* exactly when the dial succeeded and LoginFailed after every failed dial, a
\* failure with no response included; and no statement of ReConn stores
\* Connecting: loginStatus is Connecting during or after a call only if the
\* call found it so and has not yet stored the outcome of its dial
C20_StatusFollowsDial ==
    \A p \in Procs :
        obs[p].op = "ReConn" =>
            /\ (Returned(p, "ReConn") /\ obs[p].dials = 1) =>
                  /\ loginStatus = LoginSuccess <=> obs[p].dial = Connected
                  /\ obs[p].dial # Connected => loginStatus = LoginFailed
            /\ loginStatus = Connecting =>
                  /\ obs[p].entryStatus = Connecting
                  /\ pc[p] \in {"rc_lock", "rc_reset", "rc_close", "rc_check", "rc_dial",
                                "rc_failed", "rc_success"}

\* a ReConn entered with Connecting stored by its caller got no response to
\* its dial and has returned: loginStatus is LoginFailed
C20_Witness ==
    \E p \in Procs :
        /\ Returned(p, "ReConn")
        /\ obs[p].entryStatus = Connecting
        /\ obs[p].dials = 1 /\ obs[p].dial = NoResponse
        /\ loginStatus = LoginFailed

====
